---- MODULE Spec2Model ----
(***************************************************************************)
(* Model of the Hikvision proxy edge function                               *)
(* (supabase/functions/hikvision-proxy/index.ts).                           *)
(*                                                                          *)
(* Every inbound request is handled by its own invocation of the serve     *)
(* handler.  An invocation suspends at every await (outbound vendor call,  *)
(* store read, store write); each await is one action of the model, so     *)
(* invocations interleave exactly at those points.  The tables of the      *)
(* backing store are the only state shared between invocations.            *)
(***************************************************************************)
EXTENDS Integers, Sequences, FiniteSets, TLC

(***************************************************************************)
(* Bounds of the model.                                                     *)
(***************************************************************************)
NumReq == 2
MaxDoors == 2

ReqIds == 1..NumReq

(***************************************************************************)
(* Values.  Absent stands for a JavaScript undefined / missing field.      *)
(***************************************************************************)
Absent == "absent"
Falsy(v) == v = Absent \/ v = ""

ApiUrl == "https://vendor"
AppKey == "key"
SecretKey == "secret"
DefaultBranch == "default"
Branch1 == "b1"
Tenants == {"", DefaultBranch, Branch1}
Tokens == {"t1", "t2"}
Doors == {1, 2}

Site1 == [id |-> "s1", name |-> "Site One"]
Site2 == [id |-> "s2", name |-> "Site Two"]
NoSite == [id |-> Absent, name |-> Absent]
DefaultSite == [id |-> "default-site", name |-> "Default Site"]
SiteLists == {<<>>, <<Site1>>, <<Site2, Site1>>}

(***************************************************************************)
(* Error Catalog.                                                           *)
(***************************************************************************)
HIKVISION_ERRORS ==
  [c \in {"EVZ20002", "EVZ20007", "EVZ0012", "EVZ20014", "0x400019F1",
          "0x30000010", "0x30001000", "0x00300001", "0x00300002",
          "0x00300003", "0x00400001", "0x00400004", "0x00400006",
          "0x01400003", "0x01400004", "0x01400006", "0x4000109C",
          "0x4000109D", "0x40008000", "0x40008001", "0x40008007",
          "EVZ10029"} |->
     CASE c = "EVZ20002" -> [message |-> "Device does not exist", status |-> 404]
       [] c = "EVZ20007" -> [message |-> "The device is offline", status |-> 503]
       [] c = "EVZ0012" -> [message |-> "Adding device failed", status |-> 400]
       [] c = "EVZ20014" -> [message |-> "Incorrect device serial number", status |-> 400]
       [] c = "0x400019F1" -> [message |-> "The maximum number of devices reached", status |-> 429]
       [] c = "0x30000010" -> [message |-> "Database search failed", status |-> 500]
       [] c = "0x30001000" -> [message |-> "HBP Exception", status |-> 500]
       [] c = "0x00300001" -> [message |-> "Time synchronization failed", status |-> 500]
       [] c = "0x00300002" -> [message |-> "Invalid NTP server address", status |-> 400]
       [] c = "0x00300003" -> [message |-> "Incorrect time format", status |-> 400]
       [] c = "0x00400001" -> [message |-> "Parsing domain name failed", status |-> 400]
       [] c = "0x00400004" -> [message |-> "IP addresses of devices conflicted", status |-> 409]
       [] c = "0x00400006" -> [message |-> "Uploading failed", status |-> 500]
       [] c = "0x01400003" -> [message |-> "Certificates mismatched", status |-> 403]
       [] c = "0x01400004" -> [message |-> "Device is not activated", status |-> 401]
       [] c = "0x01400006" -> [message |-> "IP address is banned", status |-> 403]
       [] c = "0x4000109C" -> [message |-> "The library name already exists", status |-> 409]
       [] c = "0x4000109D" -> [message |-> "No record found", status |-> 404]
       [] c = "0x40008000" -> [message |-> "Arming failed", status |-> 500]
       [] c = "0x40008001" -> [message |-> "Disarming failed", status |-> 500]
       [] c = "0x40008007" -> [message |-> "Registering timed out", status |-> 504]
       [] c = "EVZ10029" -> [message |-> "API calling frequency exceeded limit", status |-> 429]]

\* Property names every JavaScript object literal inherits from
\* Object.prototype: HIKVISION_ERRORS[name] is a truthy value for them, and
\* that value has neither a string message nor a numeric status.
ObjectPrototypeKeys ==
  {"constructor", "toString", "valueOf", "hasOwnProperty", "isPrototypeOf",
   "propertyIsEnumerable", "toLocaleString", "__proto__"}

getHikvisionError(errorCode) ==
  IF errorCode \in DOMAIN HIKVISION_ERRORS THEN HIKVISION_ERRORS[errorCode]
  ELSE IF errorCode \in ObjectPrototypeKeys THEN [message |-> Absent, status |-> 0]
  ELSE [message |-> "Hikvision error: " \o errorCode, status |-> 400]

\* Codes the vendor answers with in the model: success, three catalogued
\* codes and one code the catalog does not list.
VendorErrorCodes == {"EVZ20002", "EVZ20007", "EVZ10029", "E_UNLISTED"}

(***************************************************************************)
(* Handler results and response envelopes.                                  *)
(***************************************************************************)
NoPayload ==
  [accessToken |-> Absent, siteId |-> Absent, siteName |-> Absent,
   personId |-> Absent, subscriptionId |-> Absent, sites |-> <<>>]

Result(success, error, message, errorCode, details, payload) ==
  [success |-> success, error |-> error, message |-> message,
   errorCode |-> errorCode, details |-> details, payload |-> payload]

Failure(error) == Result(FALSE, error, Absent, Absent, Absent, NoPayload)
NoResult == Result(FALSE, Absent, Absent, Absent, Absent, NoPayload)

NoTokenMsg == "No valid access token found. Please authenticate first."
NoTokenResult == Failure(NoTokenMsg)

\* A fetch() that rejects, or a response body that is not JSON.
TransportMsg == "vendor transport fault"

corsHeaders ==
  [origin |-> "*", methods |-> "POST, OPTIONS",
   headers |-> "Content-Type, Authorization"]

NoResponse ==
  [sent |-> FALSE, status |-> 0, hasBody |-> FALSE, cors |-> corsHeaders,
   body |-> NoResult, wrapped |-> FALSE, data |-> NoResult]

\* new Response(JSON.stringify(result), {status, headers})
JsonResponse(status, result) ==
  [sent |-> TRUE, status |-> status, hasBody |-> TRUE, cors |-> corsHeaders,
   body |-> result, wrapped |-> FALSE, data |-> NoResult]

\* new Response(JSON.stringify({success: true, message, data: result}), ...)
WrappedResponse(message, result) ==
  [sent |-> TRUE, status |-> 200, hasBody |-> TRUE, cors |-> corsHeaders,
   body |-> Result(TRUE, Absent, message, Absent, Absent, NoPayload),
   wrapped |-> TRUE, data |-> result]

PreflightResponse ==
  [sent |-> TRUE, status |-> 204, hasBody |-> FALSE, cors |-> corsHeaders,
   body |-> NoResult, wrapped |-> FALSE, data |-> NoResult]

\* The catch clause answering without the cross-origin headers.
FaultResponseBare(message) ==
  [sent |-> TRUE, status |-> 500, hasBody |-> TRUE,
   cors |-> [origin |-> Absent, methods |-> Absent, headers |-> Absent],
   body |-> Failure(message), wrapped |-> FALSE, data |-> NoResult]

\* The catch clause answering with the status of a client error.
FaultResponseBadRequest(message) == JsonResponse(400, Failure(message))

\* The catch clause of the serve handler.
FaultResponse(message) == JsonResponse(500, Failure(message))

InvalidActionResponse == JsonResponse(400, Failure("Invalid action"))

(***************************************************************************)
(* Inbound requests.  A request either reaches the serve handler (entry    *)
(* "serve") or invokes one of the operations that the action switch does   *)
(* not route to (entry "internal").                                         *)
(***************************************************************************)
NoPerson == [present |-> FALSE, id |-> Absent, name |-> Absent]
NoDoorList == [present |-> FALSE, doors |-> <<>>]

PersonInputs ==
  {NoPerson} \cup
  [present : {TRUE}, id : {Absent, "m1"}, name : {Absent, "Ann"}]

DoorListInputs ==
  {NoDoorList} \cup
  {[present |-> TRUE, doors |-> d] :
     d \in UNION {[1..n -> Doors] : n \in 0..MaxDoors}}

BaseInput ==
  [entry |-> "serve", method |-> "POST", parsable |-> TRUE, action |-> Absent,
   apiUrl |-> Absent, appKey |-> Absent, secretKey |-> Absent,
   deviceId |-> Absent, personData |-> NoPerson, doorList |-> NoDoorList,
   branchId |-> Absent, siteName |-> Absent,
   eventType |-> Absent, eventTime |-> Absent]

BranchInputs == {Absent, "", Branch1}
ApiUrlInputs == {Absent, ApiUrl}
DeviceInputs == {Absent, "dev1", "dev2", "devX"}

GetTokenInputs ==
  {[BaseInput EXCEPT !.action = "getToken", !.appKey = k, !.secretKey = s,
                     !.apiUrl = u, !.branchId = b] :
     k \in {Absent, AppKey}, s \in {Absent, SecretKey},
     u \in ApiUrlInputs, b \in BranchInputs}

TestDeviceInputs ==
  {[BaseInput EXCEPT !.action = "testDevice", !.deviceId = d, !.apiUrl = u,
                     !.branchId = b] :
     d \in {Absent, "dev1"}, u \in ApiUrlInputs, b \in BranchInputs}

RegisterPersonInputs ==
  {[BaseInput EXCEPT !.action = "registerPerson", !.personData = p,
                     !.apiUrl = u, !.branchId = b] :
     p \in PersonInputs, u \in ApiUrlInputs, b \in BranchInputs}

AssignInputs ==
  {[BaseInput EXCEPT !.action = "assignAccessPrivileges", !.personData = p,
                     !.doorList = l, !.deviceId = d] :
     p \in {NoPerson, [present |-> TRUE, id |-> Absent, name |-> "Ann"],
            [present |-> TRUE, id |-> "m1", name |-> "Ann"]},
     l \in DoorListInputs, d \in DeviceInputs}

CreateSiteInputs ==
  {[BaseInput EXCEPT !.action = "createSite", !.siteName = n, !.branchId = b] :
     n \in {Absent, "Gym"}, b \in BranchInputs}

SearchSitesInputs ==
  {[BaseInput EXCEPT !.action = "searchSites", !.apiUrl = u, !.branchId = b] :
     u \in ApiUrlInputs, b \in BranchInputs}

\* Action names the switch has no case for.
UnroutedActions == {"bogus", "subscribeToEvents", Absent}

OtherInputs ==
  {[BaseInput EXCEPT !.action = a] : a \in UnroutedActions}
  \cup {[BaseInput EXCEPT !.method = "OPTIONS", !.action = a, !.parsable = p] :
          a \in {"getToken", "bogus"}, p \in BOOLEAN}
  \cup {[BaseInput EXCEPT !.parsable = FALSE]}

SubscribeInputs ==
  {[BaseInput EXCEPT !.entry = "internal", !.action = "subscribeToEvents",
                     !.apiUrl = ApiUrl, !.branchId = b] :
     b \in {DefaultBranch, Branch1}}

\* Event notifications delivered to handleEventWebhook; the body of one of
\* them is not JSON.
WebhookInputs ==
  {[BaseInput EXCEPT !.entry = "internal", !.action = "handleEventWebhook",
                     !.eventType = t, !.eventTime = e, !.branchId = b] :
     t \in {Absent, "access"}, e \in {Absent, "", "T1"}, b \in {Absent, Branch1}}
  \cup {[BaseInput EXCEPT !.entry = "internal", !.action = "handleEventWebhook",
                          !.parsable = FALSE]}

Inputs ==
  GetTokenInputs \cup TestDeviceInputs \cup RegisterPersonInputs \cup
  AssignInputs \cup CreateSiteInputs \cup SearchSitesInputs \cup
  OtherInputs \cup SubscribeInputs \cup WebhookInputs

\* const { branchId = 'default' } = requestData
BranchOf(in) == IF in.branchId = Absent THEN DefaultBranch ELSE in.branchId

\* const settings = { api_url: apiUrl || '', branch_id: branchId || '', ... }
SettingsOf(in) ==
  [api_url |-> IF Falsy(in.apiUrl) THEN "" ELSE in.apiUrl,
   branch_id |-> IF Falsy(BranchOf(in)) THEN "" ELSE BranchOf(in),
   device_id |-> in.deviceId]

(***************************************************************************)
(* State.                                                                   *)
(***************************************************************************)
VARIABLES
  pc,            \* where each invocation stands
  input,         \* the request each invocation handles
  local,         \* the local variables of each invocation
  result,        \* the value the invoked operation returned
  response,      \* the HTTP response the serve handler produced
  vendorLog,     \* outbound vendor calls issued by each invocation
  storeLog,      \* store reads and writes issued by each invocation
  tokens,        \* table hikvision_tokens
  branches,      \* table branches
  apiSettings,   \* table hikvision_api_settings
  persons,       \* table hikvision_persons
  privileges,    \* table hikvision_access_privileges
  subscriptions, \* table hikvision_subscriptions
  events,        \* table hikvision_events, in insertion order
  clock,         \* Date.now()
  lastTokenWriter, \* history: the invocation whose credential upsert the
                   \* store applied last, per tenant (0: none yet)
  lookup         \* the argument and the return value of each call of
                 \* getHikvisionError made on its own

store == <<tokens, branches, apiSettings, persons, privileges, subscriptions,
          events>>
vars == <<pc, input, local, result, response, vendorLog, storeLog,
          tokens, branches, apiSettings, persons, privileges, subscriptions,
          events, clock, lastTokenWriter, lookup>>

NoLocal ==
  [branch |-> Absent, apiUrl |-> Absent, tok |-> Absent, newTok |-> Absent,
   ts |-> 0, site |-> NoSite, sites |-> <<>>, i |-> 0, vendorId |-> Absent,
   nested |-> FALSE, mirrorFailed |-> FALSE, after |-> {}]

NoErrorInfo == [message |-> Absent, status |-> 0]
NoLookup == [errorCode |-> Absent, returned |-> FALSE, info |-> NoErrorInfo]

\* Table hikvision_devices: device_id -> branch_id.  No operation writes it.
Devices == [d \in {"dev1", "dev2"} |-> IF d = "dev1" THEN Branch1 ELSE DefaultBranch]

Init ==
  /\ pc = [r \in ReqIds |-> "idle"]
  /\ input = [r \in ReqIds |-> BaseInput]
  /\ local = [r \in ReqIds |-> NoLocal]
  /\ result = [r \in ReqIds |-> NoResult]
  /\ response = [r \in ReqIds |-> NoResponse]
  /\ vendorLog = [r \in ReqIds |-> <<>>]
  /\ storeLog = [r \in ReqIds |-> <<>>]
  /\ tokens = {}
  /\ branches = [b \in Tenants |-> [exists |-> b = Branch1, site |-> NoSite]]
  /\ apiSettings = [b \in Tenants |->
                      [exists |-> b = Branch1,
                       api_url |-> IF b = Branch1 THEN ApiUrl ELSE Absent,
                       site |-> NoSite]]
  /\ persons = {}
  /\ privileges = {}
  /\ subscriptions = {}
  /\ events = <<>>
  /\ clock = 1
  /\ lastTokenWriter = [b \in Tenants |-> 0]
  /\ lookup = [r \in ReqIds |-> NoLookup]

(***************************************************************************)
(* Store operators.                                                         *)
(***************************************************************************)
TokenRows(b) == {t \in tokens : t.branch_id = b}

\* .eq('branch_id', b).order('updated_at', {ascending: false}).limit(1)
LatestToken(b) ==
  CHOOSE t \in TokenRows(b) : \A u \in TokenRows(b) : u.updated_at <= t.updated_at

\* An upsert that keeps the row already stored for the tenant
\* (ON CONFLICT DO NOTHING).
UpsertTokenKeepFirst(table, row) ==
  IF \E t \in table : t.branch_id = row.branch_id THEN table ELSE table \cup {row}

\* An upsert that replaces the stored row only by a row with a later
\* update time.
UpsertTokenIfNewer(table, row) ==
  IF \E t \in table : t.branch_id = row.branch_id /\ t.updated_at > row.updated_at
  THEN table
  ELSE {t \in table : t.branch_id # row.branch_id} \cup {row}

\* .upsert(row, {onConflict: 'branch_id'})
UpsertToken(table, row) ==
  {t \in table : t.branch_id # row.branch_id} \cup {row}

\* .upsert(row, {onConflict: 'member_id'}); a null member_id conflicts with
\* no row.
UpsertPerson(table, row) ==
  {p \in table : p.member_id = Absent \/ p.member_id # row.member_id} \cup {row}

\* .upsert(row, {onConflict: 'person_id,door_id'})
UpsertPrivilege(table, row) ==
  {p \in table : ~(p.person_id = row.person_id /\ p.door_id = row.door_id)}
  \cup {row}

\* .upsert(row, {onConflict: 'branch_id'})
UpsertSubscription(table, row) ==
  {x \in table : x.branch_id # row.branch_id} \cup {row}

\* .update({...site}).eq(key, b): changes the rows that match, if any.
UpdateSite(table, b, site) ==
  IF b \in DOMAIN table /\ table[b].exists
  THEN [table EXCEPT ![b].site = site]
  ELSE table

(***************************************************************************)
(* Bookkeeping shared by the actions.                                      *)
(***************************************************************************)
LogVendor(r, kind, bearer) ==
  vendorLog' = [vendorLog EXCEPT ![r] = Append(@, [kind |-> kind, bearer |-> bearer])]

LogStore(r, table, op, key, ok) ==
  storeLog' = [storeLog EXCEPT ![r] =
                 Append(@, [table |-> table, op |-> op, key |-> key, ok |-> ok])]

\* The return statements of the action switch.
ReplyFor(action, res) ==
  CASE action = "assignAccessPrivileges" ->
         WrappedResponse("Access privileges assigned successfully", res)
    [] action = "createSite" ->
         WrappedResponse("Site created successfully", res)
    [] OTHER -> JsonResponse(200, res)

\* The invoked operation returns res to its caller.
Finish(r, res) ==
  /\ result' = [result EXCEPT ![r] = res]
  /\ IF input[r].entry = "serve"
     THEN /\ pc' = [pc EXCEPT ![r] = "responded"]
          /\ response' = [response EXCEPT ![r] = ReplyFor(input[r].action, res)]
     ELSE /\ pc' = [pc EXCEPT ![r] = "returned"]
          /\ UNCHANGED response

\* The serve handler answers without invoking an operation.
Answer(r, resp) ==
  /\ pc' = [pc EXCEPT ![r] = "responded"]
  /\ response' = [response EXCEPT ![r] = resp]
  /\ UNCHANGED result

Goto(r, label) ==
  /\ pc' = [pc EXCEPT ![r] = label]
  /\ UNCHANGED <<result, response>>

\* The result of a vendor answer whose code is not '0'.
VendorError(code) ==
  Result(FALSE, Absent, getHikvisionError(code).message, code, Absent, NoPayload)

\* testDevice reports the catalogued message in the error field.
VendorErrorAsError(code) ==
  Result(FALSE, getHikvisionError(code).message, Absent, code, Absent, NoPayload)

(***************************************************************************)
(* The serve handler.                                                       *)
(***************************************************************************)
Completed(r) == pc[r] \in {"responded", "returned"}

Receive(r) ==
  /\ pc[r] = "idle"
  /\ \A q \in ReqIds : q < r => pc[q] # "idle"
  /\ \E in \in Inputs : input' = [input EXCEPT ![r] = in]
  /\ pc' = [pc EXCEPT ![r] = "received"]
  \* history: the invocations that had completed when this one began
  /\ local' = [local EXCEPT ![r].after = {q \in ReqIds : Completed(q)}]
  /\ UNCHANGED <<result, response, vendorLog, storeLog, store, clock, lastTokenWriter, lookup>>

\* The message of the Error the action switch throws for a request that
\* lacks a field its action requires; Absent when the request passes.
ValidationError(in) ==
  CASE in.action = "getToken" /\ (Falsy(in.appKey) \/ Falsy(in.secretKey)) ->
         "appKey and secretKey are required for getToken action"
    [] in.action = "testDevice" /\ Falsy(in.deviceId) ->
         "deviceId is required for testDevice action"
    [] in.action = "registerPerson" /\ ~in.personData.present ->
         "personData is required for registerPerson action"
    [] in.action = "registerPerson" /\ in.personData.present
         /\ Falsy(BranchOf(in)) ->
         "branchId is required for registerPerson action"
    [] in.action = "assignAccessPrivileges"
         /\ (~in.personData.present \/ Falsy(in.personData.id)
             \/ ~in.doorList.present \/ Len(in.doorList.doors) = 0) ->
         "personData.id and doorList are required for assignAccessPrivileges action"
    [] in.action = "assignAccessPrivileges" /\ in.personData.present
         /\ ~Falsy(in.personData.id) /\ in.doorList.present
         /\ Len(in.doorList.doors) > 0 /\ Falsy(in.deviceId) ->
         "deviceId is required for assignAccessPrivileges action"
    [] in.action = "createSite" /\ Falsy(in.siteName) ->
         "siteName is required for createSite action"
    [] in.action = "createSite" /\ ~Falsy(in.siteName) /\ Falsy(BranchOf(in)) ->
         "branchId is required for createSite action"
    [] OTHER -> Absent

\* The action switch with one case too many.
RoutedActionsAndSubscribe ==
  {"getToken", "testDevice", "registerPerson", "assignAccessPrivileges",
   "createSite", "searchSites", "subscribeToEvents"}

RoutedActions ==
  {"getToken", "testDevice", "registerPerson", "assignAccessPrivileges",
   "createSite", "searchSites"}

\* SyncFailure with the name check of registerPerson left out.
SyncFailureNoNameCheck(in) ==
  CASE in.action \in {"testDevice", "registerPerson", "searchSites"}
         /\ Falsy(SettingsOf(in).api_url) ->
         Failure("Hikvision API URL not configured")
    [] OTHER -> NoResult

\* What an operation returns before its first await, NoResult when it goes on.
SyncFailure(in) ==
  CASE in.action \in {"testDevice", "registerPerson", "searchSites"}
         /\ Falsy(SettingsOf(in).api_url) ->
         Failure("Hikvision API URL not configured")
    [] in.action = "registerPerson" /\ ~Falsy(SettingsOf(in).api_url)
         /\ Falsy(in.personData.name) ->
         Failure("Person name is required")
    [] OTHER -> NoResult

FirstAwait(action) ==
  CASE action = "getToken" -> "gt_fetch"
    [] action = "testDevice" -> "td_token"
    [] action = "registerPerson" -> "rp_token"
    [] action = "assignAccessPrivileges" -> "ap_device"
    [] action = "createSite" -> "cs_token"
    [] action = "searchSites" -> "ss_token"
    [] action = "subscribeToEvents" -> "se_token"
    [] action = "handleEventWebhook" -> "wh_parse"

\* The operation starts and runs to its first await.
Invoke(r) ==
  LET in == input[r] IN
  IF SyncFailure(in) # NoResult
  THEN /\ Finish(r, SyncFailure(in))
       /\ UNCHANGED local
  ELSE /\ Goto(r, FirstAwait(in.action))
       /\ local' = [local EXCEPT ![r].branch = BranchOf(in),
                                 ![r].apiUrl = SettingsOf(in).api_url]

\* Route parsing the request body before it looks at the method.
RouteParseFirst(r) ==
  LET in == input[r] IN
  /\ pc[r] = "received"
  /\ IF in.entry = "internal" THEN Invoke(r)
     ELSE IF ~in.parsable
       THEN Answer(r, FaultResponse("Unexpected token in JSON")) /\ UNCHANGED local
     ELSE IF in.method = "OPTIONS" THEN Answer(r, PreflightResponse) /\ UNCHANGED local
     ELSE IF in.action \notin RoutedActions
       THEN Answer(r, InvalidActionResponse) /\ UNCHANGED local
     ELSE IF ValidationError(in) # Absent
       THEN Answer(r, FaultResponse(ValidationError(in))) /\ UNCHANGED local
     ELSE Invoke(r)
  /\ UNCHANGED <<input, vendorLog, storeLog, store, clock, lastTokenWriter, lookup>>

Route(r) ==
  LET in == input[r] IN
  /\ pc[r] = "received"
  /\ IF in.entry = "internal" THEN Invoke(r)
     ELSE IF in.method = "OPTIONS" THEN Answer(r, PreflightResponse) /\ UNCHANGED local
     ELSE IF ~in.parsable
       THEN Answer(r, FaultResponse("Unexpected token in JSON")) /\ UNCHANGED local
     ELSE IF in.action \notin RoutedActions
       THEN Answer(r, InvalidActionResponse) /\ UNCHANGED local
     ELSE IF ValidationError(in) # Absent
       THEN Answer(r, FaultResponse(ValidationError(in))) /\ UNCHANGED local
     ELSE Invoke(r)
  /\ UNCHANGED <<input, vendorLog, storeLog, store, clock, lastTokenWriter, lookup>>

(***************************************************************************)
(* Steps shared by the operations.                                          *)
(***************************************************************************)
\* AfterSiteSearch taking the last site of the list instead of the first.
AfterSiteSearchLast(r, res) ==
  IF ~res.success
  THEN /\ Finish(r, Result(FALSE, "Failed to search for site", Absent, Absent,
                           res.error, NoPayload))
       /\ local' = [local EXCEPT ![r].nested = FALSE]
  ELSE /\ Goto(r, "gt_update")
       /\ local' = [local EXCEPT
            ![r].nested = FALSE,
            ![r].sites = res.payload.sites,
            ![r].site = IF Len(res.payload.sites) > 0
                        THEN res.payload.sites[Len(res.payload.sites)]
                        ELSE DefaultSite]

\* getToken after the searchSites it awaited has returned res.
AfterSiteSearch(r, res) ==
  IF ~res.success
  THEN /\ Finish(r, Result(FALSE, "Failed to search for site", Absent, Absent,
                           res.error, NoPayload))
       /\ local' = [local EXCEPT ![r].nested = FALSE]
  ELSE /\ Goto(r, "gt_update")
       /\ local' = [local EXCEPT
            ![r].nested = FALSE,
            ![r].sites = res.payload.sites,
            ![r].site = IF Len(res.payload.sites) > 0
                        THEN Head(res.payload.sites) ELSE DefaultSite]

\* An operation returns res: to getToken when getToken awaits it, to the
\* caller of the invocation otherwise.
Return(r, res) ==
  IF local[r].nested
  THEN AfterSiteSearch(r, res)
  ELSE Finish(r, res) /\ UNCHANGED local

\* ReadLatestToken going on to the vendor call when the select finds no row.
ReadLatestTokenLax(r, from, to) ==
  /\ pc[r] = from
  /\ \E ok \in BOOLEAN :
       LET b == local[r].branch IN
       /\ LogStore(r, "hikvision_tokens", "select", b, ok)
       /\ Goto(r, to)
       /\ local' = [local EXCEPT ![r].tok =
                      IF ok /\ TokenRows(b) # {}
                      THEN LatestToken(b).access_token ELSE Absent]
  /\ UNCHANGED <<input, vendorLog, store, clock, lastTokenWriter, lookup>>

\* "Get the latest token": the select every credential-bearing operation
\* starts with, and its no-token return.
ReadLatestToken(r, from, to) ==
  /\ pc[r] = from
  /\ \E ok \in BOOLEAN :
       LET b == local[r].branch IN
       /\ LogStore(r, "hikvision_tokens", "select", b, ok)
       /\ IF ok /\ TokenRows(b) # {}
          THEN /\ Goto(r, to)
               /\ local' = [local EXCEPT ![r].tok = LatestToken(b).access_token]
          ELSE Return(r, NoTokenResult)
  /\ UNCHANGED <<input, vendorLog, store, clock, lastTokenWriter, lookup>>

(***************************************************************************)
(* getToken                                                                 *)
(***************************************************************************)
GetTokenFetch(r) ==
  /\ pc[r] = "gt_fetch"
  /\ \/ \* fetch() rejects a URL without a base: nothing is sent
        /\ local[r].apiUrl = ""
        /\ Finish(r, Failure(TransportMsg))
        /\ UNCHANGED <<local, vendorLog, clock>>
     \/ \* transport fault, non-2xx status or a body that is not JSON
        /\ local[r].apiUrl # ""
        /\ LogVendor(r, "token/get", Absent)
        /\ Finish(r, Failure(TransportMsg))
        /\ UNCHANGED <<local, clock>>
     \/ /\ local[r].apiUrl # ""
        /\ LogVendor(r, "token/get", Absent)
        /\ \E c \in VendorErrorCodes :
             Finish(r, Result(FALSE, "Error code: " \o c, Absent, c, Absent, NoPayload))
        /\ UNCHANGED <<local, clock>>
     \/ /\ local[r].apiUrl # ""
        /\ LogVendor(r, "token/get", Absent)
        /\ \E t \in Tokens :
             local' = [local EXCEPT ![r].newTok = t, ![r].ts = clock]
        /\ clock' = clock + 1
        /\ Goto(r, "gt_upsert")
  /\ UNCHANGED <<input, storeLog, store, lastTokenWriter, lookup>>

GetTokenUpsert(r) ==
  /\ pc[r] = "gt_upsert"
  /\ \E ok \in BOOLEAN :
       /\ LogStore(r, "hikvision_tokens", "upsert", local[r].branch, ok)
       /\ IF ok
          THEN /\ tokens' = UpsertToken(tokens,
                              [branch_id |-> local[r].branch,
                               access_token |-> local[r].newTok,
                               updated_at |-> local[r].ts])
               /\ lastTokenWriter' = [lastTokenWriter EXCEPT ![local[r].branch] = r]
               /\ Goto(r, "ss_token")
               /\ local' = [local EXCEPT ![r].nested = TRUE]
          ELSE /\ Finish(r, Failure("Failed to store token in database"))
               /\ UNCHANGED <<tokens, local, lastTokenWriter>>
  /\ UNCHANGED <<input, vendorLog, branches, apiSettings, persons, privileges,
                 subscriptions, events, clock, lookup>>

GetTokenUpdate(r) ==
  /\ pc[r] = "gt_update"
  /\ \E ok \in BOOLEAN :
       /\ LogStore(r, "branches", "update", local[r].branch, ok)
       /\ branches' = IF ok THEN UpdateSite(branches, local[r].branch, local[r].site)
                      ELSE branches
       /\ local' = [local EXCEPT ![r].mirrorFailed = ~ok]
  /\ Finish(r, Result(TRUE, Absent, Absent, Absent, Absent,
                      [NoPayload EXCEPT !.accessToken = local[r].newTok,
                                        !.siteId = local[r].site.id,
                                        !.siteName = local[r].site.name]))
  /\ UNCHANGED <<input, vendorLog, tokens, apiSettings, persons, privileges,
                 subscriptions, events, clock, lastTokenWriter, lookup>>

(***************************************************************************)
(* searchSites                                                              *)
(***************************************************************************)
SearchSitesToken(r) == ReadLatestToken(r, "ss_token", "ss_fetch")

SearchSitesFetch(r) ==
  /\ pc[r] = "ss_fetch"
  /\ LogVendor(r, "site/search", local[r].tok)
  /\ \/ Return(r, Failure(TransportMsg))
     \/ \E c \in VendorErrorCodes : Return(r, VendorError(c))
     \/ \E l \in SiteLists :
          Return(r, Result(TRUE, Absent, Absent, Absent, Absent,
                           [NoPayload EXCEPT !.sites = l]))
  /\ UNCHANGED <<input, storeLog, store, clock, lastTokenWriter, lookup>>

(***************************************************************************)
(* testDevice                                                               *)
(***************************************************************************)
TestDeviceToken(r) == ReadLatestToken(r, "td_token", "td_fetch")

TestDeviceFetch(r) ==
  /\ pc[r] = "td_fetch"
  /\ LogVendor(r, "device/status", local[r].tok)
  /\ \/ Finish(r, Failure(TransportMsg))
     \/ \E c \in VendorErrorCodes : Finish(r, VendorErrorAsError(c))
     \/ Finish(r, Result(TRUE, Absent, "Device is online and working", Absent,
                         Absent, NoPayload))
  /\ UNCHANGED <<input, local, storeLog, store, clock, lastTokenWriter, lookup>>

(***************************************************************************)
(* registerPerson                                                           *)
(***************************************************************************)
VendorPersonId == "p1"
VendorSiteId == "s9"
VendorSubscriptionId == "sub1"

RegisterPersonToken(r) == ReadLatestToken(r, "rp_token", "rp_fetch")

\* RegisterPersonFetch going on to the mapping upsert whatever code the
\* vendor answered.
RegisterPersonFetchEager(r) ==
  /\ pc[r] = "rp_fetch"
  /\ LogVendor(r, "person/add", local[r].tok)
  /\ \/ Finish(r, Failure(TransportMsg)) /\ UNCHANGED local
     \/ (\E c \in VendorErrorCodes : Goto(r, "rp_upsert")) /\ UNCHANGED local
     \/ /\ Goto(r, "rp_upsert")
        /\ local' = [local EXCEPT ![r].vendorId = VendorPersonId]
  /\ UNCHANGED <<input, storeLog, store, clock, lastTokenWriter, lookup>>

RegisterPersonFetch(r) ==
  /\ pc[r] = "rp_fetch"
  /\ LogVendor(r, "person/add", local[r].tok)
  /\ \/ Finish(r, Failure(TransportMsg)) /\ UNCHANGED local
     \/ (\E c \in VendorErrorCodes : Finish(r, VendorError(c))) /\ UNCHANGED local
     \/ /\ Goto(r, "rp_upsert")
        /\ local' = [local EXCEPT ![r].vendorId = VendorPersonId]
  /\ UNCHANGED <<input, storeLog, store, clock, lastTokenWriter, lookup>>

\* RegisterPersonUpsert treating a failed mapping upsert as a failure of the
\* registration.
RegisterPersonUpsertStrict(r) ==
  /\ pc[r] = "rp_upsert"
  /\ \E ok \in BOOLEAN :
       /\ LogStore(r, "hikvision_persons", "upsert", input[r].personData.id, ok)
       /\ persons' = IF ok
                     THEN UpsertPerson(persons,
                            [person_id |-> local[r].vendorId,
                             member_id |-> input[r].personData.id,
                             name |-> input[r].personData.name,
                             branch_id |-> local[r].branch])
                     ELSE persons
       /\ local' = [local EXCEPT ![r].mirrorFailed = ~ok]
       /\ IF ok
          THEN Finish(r, Result(TRUE, Absent, "Person registered successfully",
                                Absent, Absent,
                                [NoPayload EXCEPT !.personId = local[r].vendorId]))
          ELSE Finish(r, Failure("Failed to store person mapping"))
  /\ UNCHANGED <<input, vendorLog, tokens, branches, apiSettings, privileges,
                 subscriptions, events, clock, lastTokenWriter, lookup>>

RegisterPersonUpsert(r) ==
  /\ pc[r] = "rp_upsert"
  /\ \E ok \in BOOLEAN :
       /\ LogStore(r, "hikvision_persons", "upsert", input[r].personData.id, ok)
       /\ persons' = IF ok
                     THEN UpsertPerson(persons,
                            [person_id |-> local[r].vendorId,
                             member_id |-> input[r].personData.id,
                             name |-> input[r].personData.name,
                             branch_id |-> local[r].branch])
                     ELSE persons
       /\ local' = [local EXCEPT ![r].mirrorFailed = ~ok]
  /\ Finish(r, Result(TRUE, Absent, "Person registered successfully", Absent,
                      Absent, [NoPayload EXCEPT !.personId = local[r].vendorId]))
  /\ UNCHANGED <<input, vendorLog, tokens, branches, apiSettings, privileges,
                 subscriptions, events, clock, lastTokenWriter, lookup>>

(***************************************************************************)
(* assignAccessPrivileges                                                   *)
(***************************************************************************)
\* "Get the API URL": the select on hikvision_api_settings and the Error
\* thrown when it finds no usable row.
ReadApiSettings(r, from, to) ==
  /\ pc[r] = from
  /\ \E ok \in BOOLEAN :
       LET b == local[r].branch IN
       /\ LogStore(r, "hikvision_api_settings", "select", b, ok)
       /\ IF ok /\ apiSettings[b].exists /\ ~Falsy(apiSettings[b].api_url)
          THEN /\ Goto(r, to)
               /\ local' = [local EXCEPT ![r].apiUrl = apiSettings[b].api_url]
          ELSE /\ Finish(r, Failure("Hikvision API settings not found"))
               /\ UNCHANGED local
  /\ UNCHANGED <<input, vendorLog, store, clock, lastTokenWriter, lookup>>

AssignDevice(r) ==
  /\ pc[r] = "ap_device"
  /\ \E ok \in BOOLEAN :
       LET d == input[r].deviceId IN
       /\ LogStore(r, "hikvision_devices", "select", d, ok)
       /\ IF ok /\ d \in DOMAIN Devices
          THEN /\ Goto(r, "ap_token")
               /\ local' = [local EXCEPT ![r].branch = Devices[d]]
          ELSE /\ Finish(r, Failure("Device not found"))
               /\ UNCHANGED local
  /\ UNCHANGED <<input, vendorLog, store, clock, lastTokenWriter, lookup>>

AssignToken(r) == ReadLatestToken(r, "ap_token", "ap_settings")

AssignSettings(r) == ReadApiSettings(r, "ap_settings", "ap_fetch")

AssignFetch(r) ==
  /\ pc[r] = "ap_fetch"
  /\ LogVendor(r, "acs/privilege/config", local[r].tok)
  /\ \/ Finish(r, Failure(TransportMsg)) /\ UNCHANGED local
     \/ (\E c \in VendorErrorCodes : Finish(r, VendorError(c))) /\ UNCHANGED local
     \/ /\ Goto(r, "ap_upsert")
        /\ local' = [local EXCEPT ![r].i = 1]
  /\ UNCHANGED <<input, storeLog, store, clock, lastTokenWriter, lookup>>

\* AssignUpsert leaving the loop at the first upsert that returns an error.
AssignUpsertAbort(r) ==
  LET doors == input[r].doorList.doors
      i == local[r].i
      row == [person_id |-> input[r].personData.id, door_id |-> ToString(doors[i])]
  IN
  /\ pc[r] = "ap_upsert"
  /\ \E ok \in BOOLEAN :
       /\ LogStore(r, "hikvision_access_privileges", "upsert", row.door_id, ok)
       /\ privileges' = IF ok THEN UpsertPrivilege(privileges, row) ELSE privileges
       /\ local' = [local EXCEPT ![r].i = i + 1,
                                 ![r].mirrorFailed = @ \/ ~ok]
       /\ IF ok /\ i < Len(doors)
          THEN UNCHANGED <<pc, result, response>>
          ELSE Finish(r, Result(TRUE, Absent,
                                "Access privileges assigned successfully",
                                Absent, Absent, NoPayload))
  /\ UNCHANGED <<input, vendorLog, tokens, branches, apiSettings, persons,
                 subscriptions, events, clock, lastTokenWriter, lookup>>

\* One iteration of "for (const doorId of doorList)".
AssignUpsert(r) ==
  LET doors == input[r].doorList.doors
      i == local[r].i
      row == [person_id |-> input[r].personData.id, door_id |-> ToString(doors[i])]
  IN
  /\ pc[r] = "ap_upsert"
  /\ \E ok \in BOOLEAN :
       /\ LogStore(r, "hikvision_access_privileges", "upsert", row.door_id, ok)
       /\ privileges' = IF ok THEN UpsertPrivilege(privileges, row) ELSE privileges
       /\ local' = [local EXCEPT ![r].i = i + 1,
                                 ![r].mirrorFailed = @ \/ ~ok]
  /\ IF i < Len(doors)
     THEN UNCHANGED <<pc, result, response>>
     ELSE Finish(r, Result(TRUE, Absent, "Access privileges assigned successfully",
                           Absent, Absent, NoPayload))
  /\ UNCHANGED <<input, vendorLog, tokens, branches, apiSettings, persons,
                 subscriptions, events, clock, lastTokenWriter, lookup>>

(***************************************************************************)
(* createSite                                                               *)
(***************************************************************************)
CreateSiteToken(r) == ReadLatestToken(r, "cs_token", "cs_settings")

CreateSiteSettings(r) == ReadApiSettings(r, "cs_settings", "cs_fetch")

CreateSiteFetch(r) ==
  /\ pc[r] = "cs_fetch"
  /\ LogVendor(r, "site/add", local[r].tok)
  /\ \/ Finish(r, Failure(TransportMsg)) /\ UNCHANGED local
     \/ (\E c \in VendorErrorCodes : Finish(r, VendorError(c))) /\ UNCHANGED local
     \/ /\ Goto(r, "cs_update")
        /\ local' = [local EXCEPT ![r].vendorId = VendorSiteId]
  /\ UNCHANGED <<input, storeLog, store, clock, lastTokenWriter, lookup>>

CreateSiteUpdate(r) ==
  LET site == [id |-> local[r].vendorId, name |-> input[r].siteName] IN
  /\ pc[r] = "cs_update"
  /\ \E ok \in BOOLEAN :
       /\ LogStore(r, "hikvision_api_settings", "update", local[r].branch, ok)
       /\ apiSettings' = IF ok THEN UpdateSite(apiSettings, local[r].branch, site)
                         ELSE apiSettings
       /\ local' = [local EXCEPT ![r].mirrorFailed = ~ok]
  /\ Finish(r, Result(TRUE, Absent, Absent, Absent, Absent,
                      [NoPayload EXCEPT !.siteId = site.id, !.siteName = site.name]))
  /\ UNCHANGED <<input, vendorLog, tokens, branches, persons, privileges,
                 subscriptions, events, clock, lastTokenWriter, lookup>>

(***************************************************************************)
(* subscribeToEvents                                                        *)
(***************************************************************************)
SubscribeToken(r) == ReadLatestToken(r, "se_token", "se_fetch")

SubscribeFetch(r) ==
  /\ pc[r] = "se_fetch"
  /\ LogVendor(r, "mq/subscribe", local[r].tok)
  /\ \/ Finish(r, Failure(TransportMsg)) /\ UNCHANGED local
     \/ (\E c \in VendorErrorCodes : Finish(r, VendorError(c))) /\ UNCHANGED local
     \/ /\ Goto(r, "se_upsert")
        /\ local' = [local EXCEPT ![r].vendorId = VendorSubscriptionId]
  /\ UNCHANGED <<input, storeLog, store, clock, lastTokenWriter, lookup>>

SubscribeUpsert(r) ==
  /\ pc[r] = "se_upsert"
  /\ \E ok \in BOOLEAN :
       /\ LogStore(r, "hikvision_subscriptions", "upsert", local[r].branch, ok)
       /\ subscriptions' = IF ok
                           THEN UpsertSubscription(subscriptions,
                                  [branch_id |-> local[r].branch,
                                   subscription_id |-> local[r].vendorId])
                           ELSE subscriptions
       /\ local' = [local EXCEPT ![r].mirrorFailed = ~ok]
  /\ Finish(r, Result(TRUE, Absent, Absent, Absent, Absent,
                      [NoPayload EXCEPT !.subscriptionId = local[r].vendorId]))
  /\ UNCHANGED <<input, vendorLog, tokens, branches, apiSettings, persons,
                 privileges, events, clock, lastTokenWriter, lookup>>

(***************************************************************************)
(* handleEventWebhook                                                       *)
(***************************************************************************)
\* await req.json(), then the test of eventType and eventTime.
WebhookParse(r) ==
  /\ pc[r] = "wh_parse"
  /\ IF ~input[r].parsable
     THEN Finish(r, Failure("Unexpected token in JSON"))
     ELSE IF Falsy(input[r].eventType) \/ Falsy(input[r].eventTime)
       THEN Finish(r, Failure("Invalid webhook data"))
     ELSE Goto(r, "wh_insert")
  /\ UNCHANGED <<input, local, vendorLog, storeLog, store, clock,
                 lastTokenWriter, lookup>>

\* The row handleEventWebhook inserts for a notification.
EventRow(in) ==
  [event_type |-> in.eventType, event_time |-> in.eventTime,
   branch_id |-> IF Falsy(in.branchId) THEN "unknown" ELSE in.branchId,
   status |-> "success"]

\* An insert that leaves out a notification the table already holds.
WebhookInsertOnce(r) ==
  /\ pc[r] = "wh_insert"
  /\ \E ok \in BOOLEAN :
       /\ LogStore(r, "hikvision_events", "insert", input[r].eventTime, ok)
       /\ events' = IF ok /\ \A k \in 1..Len(events) : events[k] # EventRow(input[r])
                    THEN Append(events, EventRow(input[r]))
                    ELSE events
       /\ IF ok
          THEN Finish(r, Result(TRUE, Absent, "Event processed successfully",
                                Absent, Absent, NoPayload))
          ELSE Finish(r, Failure("Unknown error handling webhook"))
  /\ UNCHANGED <<input, local, vendorLog, tokens, branches, apiSettings, persons,
                 privileges, subscriptions, clock, lastTokenWriter, lookup>>

\* .from('hikvision_events').insert({...})
WebhookInsert(r) ==
  /\ pc[r] = "wh_insert"
  /\ \E ok \in BOOLEAN :
       /\ LogStore(r, "hikvision_events", "insert", input[r].eventTime, ok)
       /\ events' = IF ok THEN Append(events, EventRow(input[r])) ELSE events
       /\ IF ok
          THEN Finish(r, Result(TRUE, Absent, "Event processed successfully",
                                Absent, Absent, NoPayload))
          ELSE Finish(r, Failure("Unknown error handling webhook"))
  /\ UNCHANGED <<input, local, vendorLog, tokens, branches, apiSettings, persons,
                 privileges, subscriptions, clock, lastTokenWriter, lookup>>

(***************************************************************************)
(* Specification.                                                           *)
(***************************************************************************)
Next ==
  \E r \in ReqIds :
    \/ Receive(r)
    \/ Route(r)
    \/ GetTokenFetch(r)
    \/ GetTokenUpsert(r)
    \/ GetTokenUpdate(r)
    \/ SearchSitesToken(r)
    \/ SearchSitesFetch(r)
    \/ TestDeviceToken(r)
    \/ TestDeviceFetch(r)
    \/ RegisterPersonToken(r)
    \/ RegisterPersonFetch(r)
    \/ RegisterPersonUpsert(r)
    \/ AssignDevice(r)
    \/ AssignToken(r)
    \/ AssignSettings(r)
    \/ AssignFetch(r)
    \/ AssignUpsert(r)
    \/ CreateSiteToken(r)
    \/ CreateSiteSettings(r)
    \/ CreateSiteFetch(r)
    \/ CreateSiteUpdate(r)
    \/ SubscribeToken(r)
    \/ SubscribeFetch(r)
    \/ SubscribeUpsert(r)
    \/ WebhookParse(r)
    \/ WebhookInsert(r)

Spec == Init /\ [][Next]_vars

\* The steps of invocation r once its request is received.
Handle(r) ==
  \/ Route(r)
  \/ GetTokenFetch(r) \/ GetTokenUpsert(r) \/ GetTokenUpdate(r)
  \/ SearchSitesToken(r) \/ SearchSitesFetch(r)
  \/ TestDeviceToken(r) \/ TestDeviceFetch(r)
  \/ RegisterPersonToken(r) \/ RegisterPersonFetch(r) \/ RegisterPersonUpsert(r)
  \/ AssignDevice(r) \/ AssignToken(r) \/ AssignSettings(r) \/ AssignFetch(r)
  \/ AssignUpsert(r)
  \/ CreateSiteToken(r) \/ CreateSiteSettings(r) \/ CreateSiteFetch(r)
  \/ CreateSiteUpdate(r)
  \/ SubscribeToken(r) \/ SubscribeFetch(r) \/ SubscribeUpsert(r)
  \/ WebhookParse(r) \/ WebhookInsert(r)

\* Every outbound vendor call and store call returns or fails: an invocation
\* that can take a step eventually takes one.  Requests need not arrive.
FairSpec == Spec /\ \A r \in ReqIds : WF_vars(Handle(r))

\* The store after earlier getToken requests: tenant b1 holds a credential,
\* and the default tenant holds one or none.
ProvisionedTenants == {{Branch1}, {DefaultBranch, Branch1}}

InitProvisioned ==
  /\ pc = [r \in ReqIds |-> "idle"]
  /\ input = [r \in ReqIds |-> BaseInput]
  /\ local = [r \in ReqIds |-> NoLocal]
  /\ result = [r \in ReqIds |-> NoResult]
  /\ response = [r \in ReqIds |-> NoResponse]
  /\ vendorLog = [r \in ReqIds |-> <<>>]
  /\ storeLog = [r \in ReqIds |-> <<>>]
  /\ \E S \in ProvisionedTenants :
       tokens = {[branch_id |-> b, access_token |-> "t1", updated_at |-> 0] :
                   b \in S}
  /\ branches = [b \in Tenants |-> [exists |-> b = Branch1, site |-> NoSite]]
  /\ apiSettings = [b \in Tenants |->
                      [exists |-> b = Branch1,
                       api_url |-> IF b = Branch1 THEN ApiUrl ELSE Absent,
                       site |-> NoSite]]
  /\ persons = {}
  /\ privileges = {}
  /\ subscriptions = {}
  /\ events = <<>>
  /\ clock = 1
  /\ lastTokenWriter = [b \in Tenants |-> 0]
  /\ lookup = [r \in ReqIds |-> NoLookup]

SpecProvisioned == InitProvisioned /\ [][Next]_vars

(***************************************************************************)
(* getHikvisionError called on its own, on any string.                     *)
(***************************************************************************)
\* Strings getHikvisionError is called with: every key of the catalog, and
\* strings that are no key of it.
ErrorCodeInputs ==
  DOMAIN HIKVISION_ERRORS \cup
  {"", "0", "E_UNLISTED", "evz20002", "EVZ20002 ", "constructor", "toString",
   "valueOf", "hasOwnProperty", "__proto__"}

LookupError(r) ==
  /\ \E c \in ErrorCodeInputs :
       lookup' = [lookup EXCEPT ![r] =
                    [errorCode |-> c, returned |-> TRUE, info |-> getHikvisionError(c)]]
  /\ UNCHANGED <<pc, input, local, result, response, vendorLog, storeLog, store,
                 clock, lastTokenWriter>>

NextLookup == \E r \in ReqIds : LookupError(r)

SpecLookup == Init /\ [][NextLookup]_vars

(***************************************************************************)
(* Properties.                                                              *)
(***************************************************************************)
Responded(r) == pc[r] = "responded"

\* The request reached the action switch.
Parsed(r) ==
  /\ pc[r] # "idle"
  /\ input[r].entry = "serve"
  /\ input[r].method = "POST"
  /\ input[r].parsable

\* The request lacks a field the router requires for its action.
MissingRequiredField(in) ==
  \/ in.action = "getToken" /\ (Falsy(in.appKey) \/ Falsy(in.secretKey))
  \/ in.action = "testDevice" /\ Falsy(in.deviceId)
  \/ in.action = "registerPerson" /\ (~in.personData.present \/ Falsy(BranchOf(in)))
  \/ in.action = "assignAccessPrivileges"
       /\ (\/ ~in.personData.present
           \/ Falsy(in.personData.id)
           \/ ~in.doorList.present
           \/ Len(in.doorList.doors) = 0
           \/ Falsy(in.deviceId))
  \/ in.action = "createSite" /\ (Falsy(in.siteName) \/ Falsy(BranchOf(in)))

\* registerPerson with personData present but no name.
MissingPersonName(in) ==
  in.action = "registerPerson" /\ in.personData.present /\ Falsy(in.personData.name)

\* C1 (as claimed): a request that lacks a field required by its action is
\* answered with success=false and HTTP status 400.
C1_ValidationAnswered400 ==
  \A r \in ReqIds :
    Responded(r) /\ Parsed(r) /\ MissingRequiredField(input[r])
      => /\ response[r].body.success = FALSE
         /\ response[r].status = 400

\* C2: a request that fails required-field validation (a missing router
\* field, or registerPerson without personData.name) issues no vendor call at
\* any point of its handling.
C2_NoVendorCallOnValidationFailure ==
  \A r \in ReqIds :
    Parsed(r) /\ (MissingRequiredField(input[r]) \/ MissingPersonName(input[r]))
      => vendorLog[r] = <<>>

\* C2 witness: registerPerson without a name has been answered although its
\* tenant holds a credential and the request names the vendor URL, so that
\* only the name check kept it from the vendor.
C2_Witness ==
  \E r \in ReqIds :
    /\ Responded(r) /\ Parsed(r)
    /\ MissingPersonName(input[r])
    /\ ~MissingRequiredField(input[r])
    /\ input[r].apiUrl = ApiUrl
    /\ TokenRows(BranchOf(input[r])) # {}
    /\ response[r].body.error = "Person name is required"

\* The actions that need a stored credential.
CredentialActions ==
  {"testDevice", "registerPerson", "assignAccessPrivileges", "createSite",
   "searchSites"}

\* The tenant whose credential the request's operation reads.
ResolvedTenant(in) ==
  IF in.action = "assignAccessPrivileges"
  THEN IF in.deviceId \in DOMAIN Devices THEN Devices[in.deviceId] ELSE Absent
  ELSE BranchOf(in)

\* The request passes every check made before the credential is read.
WellFormed(in) ==
  /\ ~MissingRequiredField(in)
  /\ SyncFailure(in) = NoResult
  /\ ResolvedTenant(in) # Absent

\* The invocation has read the credential table.
CredentialRead(r) ==
  \E i \in 1..Len(storeLog[r]) :
    storeLog[r][i].table = "hikvision_tokens" /\ storeLog[r][i].op = "select"

\* C3 (as claimed): a credential-requiring action for a tenant with zero
\* stored credentials is answered with top-level success=false and the fixed
\* no-token message.
C3_NoCredentialAnsweredFailure ==
  \A r \in ReqIds :
    /\ Responded(r) /\ Parsed(r)
    /\ input[r].action \in CredentialActions
    /\ WellFormed(input[r])
    /\ CredentialRead(r)
    /\ TokenRows(ResolvedTenant(input[r])) = {}
    => /\ response[r].body.success = FALSE
       /\ response[r].body.error = NoTokenMsg

\* C4 (as claimed): when the vendor call of a credential-requiring action
\* returns a code other than '0', the HTTP status of the response is the one
\* the Error Catalog gives for that code (400 for an uncatalogued code).
C4_VendorErrorStatusFromCatalog ==
  \A r \in ReqIds :
    /\ Responded(r) /\ Parsed(r)
    /\ input[r].action \in CredentialActions
    /\ result[r].errorCode # Absent
    => response[r].status = getHikvisionError(result[r].errorCode).status

\* C10: a request whose action is none of the six routed ones is answered
\* with HTTP 400 and {success: false, error: 'Invalid action'}, and its
\* handling issues no vendor call and no store read or write.
C10_InvalidAction ==
  \A r \in ReqIds :
    Parsed(r)
    /\ input[r].action \notin
         {"getToken", "testDevice", "registerPerson", "assignAccessPrivileges",
          "createSite", "searchSites"}
    => /\ vendorLog[r] = <<>>
       /\ storeLog[r] = <<>>
       /\ result[r] = NoResult
       /\ pc[r] \in {"received", "responded"}
       /\ Responded(r) =>
            /\ response[r].status = 400
            /\ response[r].hasBody
            /\ ~response[r].wrapped
            /\ response[r].body = Failure("Invalid action")

\* C10 witness: an unrouted action name that is the name of an operation of
\* the module has been answered while the store holds a credential.
C10_Witness ==
  \E r \in ReqIds :
    /\ Responded(r) /\ Parsed(r)
    /\ input[r].action = "subscribeToEvents"
    /\ response[r].status = 400
    /\ tokens # {}

(***************************************************************************)
(* Credential store properties.                                            *)
(***************************************************************************)
\* The getToken invocation received a successful vendor token response.
GotToken(r) == input[r].action = "getToken" /\ local[r].newTok # Absent

\* The store applied a write of the invocation to the table without error.
WriteApplied(r, table) ==
  \E i \in 1..Len(storeLog[r]) :
    /\ storeLog[r][i].table = table
    /\ storeLog[r][i].op \in {"upsert", "update"}
    /\ storeLog[r][i].ok

\* The credential row the invocation writes.
RowOf(r) ==
  [branch_id |-> local[r].branch, access_token |-> local[r].newTok,
   updated_at |-> local[r].ts]

\* An invocation outside S has written a credential for tenant b.
OthersWrote(S, b) ==
  \E q \in ReqIds \ S :
    GotToken(q) /\ local[q].branch = b /\ WriteApplied(q, "hikvision_tokens")

\* r1 had completed when r2 was received.
Sequential(r1, r2) == r1 \in local[r2].after

Concurrent(r1, r2) == r1 # r2 /\ ~Sequential(r1, r2) /\ ~Sequential(r2, r1)

FirstOrPlaceholder(l) ==
  IF Len(l) > 0 THEN l[1] ELSE [id |-> "default-site", name |-> "Default Site"]

IsPrivilegeWrite(e) == e.table = "hikvision_access_privileges" /\ e.op = "upsert"

\* The local access-privilege upserts the invocation has attempted, in order.
PrivilegeWrites(r) == SelectSeq(storeLog[r], IsPrivilegeWrite)

\* The vendor answered the privilege call of the invocation with code '0'.
PrivilegesAccepted(r) ==
  input[r].action = "assignAccessPrivileges" /\ local[r].i >= 1

\* C8: assignAccessPrivileges with N doors and a vendor answer of code '0'
\* attempts exactly N local upserts, one per door in list order; an upsert
\* that returns an error stops nothing: the remaining doors are attempted,
\* the rows written before stay, and the response is success=true.
C8_OneUpsertPerDoor ==
  \A r \in ReqIds :
    PrivilegesAccepted(r)
    => LET doors == input[r].doorList.doors
           att == PrivilegeWrites(r)
       IN /\ Len(att) <= Len(doors)
          /\ \A k \in 1..Len(att) :
               /\ att[k].key = ToString(doors[k])
               /\ att[k].ok =>
                    [person_id |-> input[r].personData.id, door_id |-> att[k].key]
                      \in privileges
          /\ Completed(r) =>
               /\ Len(att) = Len(doors)
               /\ result[r].success
               /\ response[r].body.success
               /\ response[r].status = 200
          /\ ~Completed(r) => pc[r] = "ap_upsert" /\ Len(att) < Len(doors)

\* C8 witness: a two-door assignment has been answered after the upsert of
\* its first door returned an error and that of its second door was applied.
C8_Witness ==
  \E r \in ReqIds :
    /\ PrivilegesAccepted(r) /\ Completed(r)
    /\ Len(input[r].doorList.doors) = 2
    /\ input[r].doorList.doors[1] # input[r].doorList.doors[2]
    /\ Len(PrivilegeWrites(r)) = 2
    /\ ~PrivilegeWrites(r)[1].ok
    /\ PrivilegeWrites(r)[2].ok
    /\ response[r].body.success

\* The mirror table each operation writes after its vendor call succeeded.
MirrorTable(action) ==
  CASE action = "registerPerson" -> "hikvision_persons"
    [] action = "createSite" -> "hikvision_api_settings"
    [] action = "subscribeToEvents" -> "hikvision_subscriptions"
    [] action = "getToken" -> "branches"
    [] OTHER -> Absent

\* The invocation has attempted its mirror write.
MirrorAttempted(r) ==
  \E i \in 1..Len(storeLog[r]) :
    /\ storeLog[r][i].table = MirrorTable(input[r].action)
    /\ storeLog[r][i].op \in {"upsert", "update"}

\* What the operation returns for the vendor data it received, the mirror
\* write having succeeded.
MirroredResult(r) ==
  CASE input[r].action = "registerPerson" ->
         Result(TRUE, Absent, "Person registered successfully", Absent, Absent,
                [NoPayload EXCEPT !.personId = local[r].vendorId])
    [] input[r].action = "createSite" ->
         Result(TRUE, Absent, Absent, Absent, Absent,
                [NoPayload EXCEPT !.siteId = local[r].vendorId,
                                  !.siteName = input[r].siteName])
    [] input[r].action = "subscribeToEvents" ->
         Result(TRUE, Absent, Absent, Absent, Absent,
                [NoPayload EXCEPT !.subscriptionId = local[r].vendorId])
    [] input[r].action = "getToken" ->
         Result(TRUE, Absent, Absent, Absent, Absent,
                [NoPayload EXCEPT !.accessToken = local[r].newTok,
                                  !.siteId = FirstOrPlaceholder(local[r].sites).id,
                                  !.siteName = FirstOrPlaceholder(local[r].sites).name])

\* The two invocations got the same request and the same vendor answers.
SameVendorOutcome(r1, r2) ==
  /\ input[r1] = input[r2]
  /\ local[r1].newTok = local[r2].newTok
  /\ local[r1].sites = local[r2].sites
  /\ local[r1].vendorId = local[r2].vendorId

\* C9: for registerPerson, createSite, subscribeToEvents and the site
\* association of getToken, the answer after a vendor success does not depend
\* on the outcome of the mirror write: it is the success answer for the
\* vendor data, and two invocations with the same request and vendor answers
\* get the same answer whatever their mirror writes returned.
C9_MirrorFailureInvisible ==
  /\ \A r \in ReqIds :
       Completed(r) /\ MirrorAttempted(r)
       => /\ result[r] = MirroredResult(r)
          /\ input[r].entry = "serve" =>
               /\ response[r].status = 200
               /\ response[r].body.success
               /\ response[r].wrapped => response[r].data = MirroredResult(r)
               /\ ~response[r].wrapped => response[r].body = MirroredResult(r)
  /\ \A r1, r2 \in ReqIds :
       /\ Completed(r1) /\ MirrorAttempted(r1)
       /\ Completed(r2) /\ MirrorAttempted(r2)
       /\ SameVendorOutcome(r1, r2)
       => result[r1] = result[r2] /\ response[r1] = response[r2]

\* C9 witness: a registerPerson whose person-mapping upsert returned an error
\* has been answered.
C9_Witness ==
  \E r \in ReqIds :
    /\ Completed(r) /\ MirrorAttempted(r)
    /\ input[r].action = "registerPerson"
    /\ local[r].mirrorFailed
    /\ persons = {}
    /\ response[r].body.success

(***************************************************************************)
(* Response envelope properties.                                           *)
(***************************************************************************)
\* C11: every response of the router (pre-flight, dispatched operation,
\* handler failure value, unknown action, caught fault) carries the three
\* cross-origin headers Allow-Origin '*', Allow-Methods 'POST, OPTIONS' and
\* Allow-Headers 'Content-Type, Authorization', and every response to a
\* request other than OPTIONS has a body that is an envelope with a boolean
\* success field.
C11_CorsAndEnvelope ==
  \A r \in ReqIds :
    response[r].sent
    => /\ response[r].cors.origin = "*"
       /\ response[r].cors.methods = "POST, OPTIONS"
       /\ response[r].cors.headers = "Content-Type, Authorization"
       /\ input[r].method # "OPTIONS"
            => response[r].hasBody /\ response[r].body.success \in BOOLEAN

\* C11 witness: one request has been answered by the catch clause and another
\* with the failure value of a handler inside the success wrapper.
C11_Witness ==
  \E r1, r2 \in ReqIds :
    /\ response[r1].sent /\ response[r1].status = 500
    /\ response[r2].sent /\ response[r2].wrapped /\ ~response[r2].data.success

\* C12: a request with method OPTIONS is answered with status 204, no body
\* and the cross-origin headers whatever its payload (parsable or not,
\* whatever action it names), and its handling parses no body, calls no
\* vendor endpoint, reads and writes no table and invokes no operation.
C12_Preflight ==
  \A r \in ReqIds :
    pc[r] # "idle" /\ input[r].entry = "serve" /\ input[r].method = "OPTIONS"
    => /\ vendorLog[r] = <<>>
       /\ storeLog[r] = <<>>
       /\ result[r] = NoResult
       /\ pc[r] \in {"received", "responded"}
       /\ Responded(r) =>
            /\ response[r].status = 204
            /\ ~response[r].hasBody
            /\ response[r].cors = corsHeaders

\* C12 witness: a pre-flight request whose payload is not JSON has been
\* answered 204, while the store holds a credential.
C12_Witness ==
  \E r \in ReqIds :
    /\ Responded(r)
    /\ input[r].method = "OPTIONS" /\ ~input[r].parsable
    /\ response[r].status = 204
    /\ tokens # {}

\* A fault is raised in the router while it handles the request: the body
\* is not JSON, or the action switch throws for a missing field.
RouterFault(in) ==
  /\ in.entry = "serve" /\ in.method = "POST"
  /\ \/ ~in.parsable
     \/ in.parsable /\ MissingRequiredField(in)

RouterFaultMessage(in) ==
  IF ~in.parsable THEN "Unexpected token in JSON" ELSE ValidationError(in)

\* The invocation has received its request and not yet answered it.
Pending(r) == pc[r] \notin {"idle", "responded", "returned"}

\* C13: provided every outbound vendor and store call returns or fails,
\* every received request is eventually answered (an invocation never
\* becomes pending again, so this is: from some point on no invocation is
\* pending, and the ones the serve handler received have sent a response);
\* a response, once sent, is never replaced by another; and the response to
\* a request during whose handling a fault is raised (an unparsable body
\* included) has HTTP status 500 and the body {success: false, error: <the
\* message of the fault>}.
C13_EveryRequestAnswered ==
  /\ <>[](\A r \in ReqIds : ~Pending(r))
  /\ [](\A r \in ReqIds :
          /\ response[r].sent <=> Responded(r)
          /\ ~Pending(r) /\ pc[r] # "idle" /\ input[r].entry = "serve"
               => Responded(r))
  /\ [][\A r \in ReqIds : response[r].sent => response'[r] = response[r]]_vars
  /\ [](\A r \in ReqIds :
          Responded(r) /\ RouterFault(input[r])
          => /\ response[r].status = 500
             /\ response[r].hasBody /\ ~response[r].wrapped
             /\ response[r].body.success = FALSE
             /\ response[r].body.error = RouterFaultMessage(input[r]))

\* C13 witness: a request whose body is not JSON has been answered 500 after
\* another request went through its vendor call and its store write.
C13_Witness ==
  \E r, q \in ReqIds :
    /\ Responded(r) /\ input[r].method = "POST" /\ ~input[r].parsable
    /\ response[r].status = 500
    /\ Responded(q) /\ vendorLog[q] # <<>> /\ WriteApplied(q, "hikvision_tokens")

(***************************************************************************)
(* Error catalog properties.                                                *)
(***************************************************************************)
\* C14 (as claimed): getHikvisionError returns, for every key of the Error
\* Catalog, exactly the catalogued message and status, and for every other
\* string ('constructor', 'toString' and the empty string included) the
\* message 'Hikvision error: <code>' with status 400.
C14_LookupTotal ==
  \A r \in ReqIds :
    lookup[r].returned
    => LET c == lookup[r].errorCode IN
       IF c \in DOMAIN HIKVISION_ERRORS
       THEN lookup[r].info = HIKVISION_ERRORS[c]
       ELSE /\ lookup[r].info.message = "Hikvision error: " \o c
            /\ lookup[r].info.status = 400

(***************************************************************************)
(* Tenant isolation.                                                        *)
(***************************************************************************)
\* The invocation takes the step.
Acts(r) == pc'[r] # pc[r] \/ local'[r] # local[r]

\* The rows of a table of tenant-owned rows that a step creates, and the
\* ones it removes or replaces.
Created(table, table2) == table2 \ table
Replaced(table, table2) == table \ table2

\* C15 (as claimed): a step of a request changes tenant-owned records
\* (credential, person mapping, site association, event subscription) of the
\* tenant the request resolves to only: every row it creates, replaces or
\* re-assigns belonged, and belongs, to that tenant.
C15_TenantIsolation ==
  [][\A r \in ReqIds :
       Acts(r)
       => LET b == local[r].branch IN
          /\ \A t \in Created(tokens, tokens') \cup Replaced(tokens, tokens') :
               t.branch_id = b
          /\ \A p \in Created(persons, persons') \cup Replaced(persons, persons') :
               p.branch_id = b
          /\ \A x \in Created(subscriptions, subscriptions')
                       \cup Replaced(subscriptions, subscriptions') :
               x.branch_id = b
          /\ \A a \in Tenants :
               branches'[a] # branches[a] \/ apiSettings'[a] # apiSettings[a]
               => a = b]_vars

(***************************************************************************)
(* Event table properties.                                                  *)
(***************************************************************************)
IsWebhook(r) == pc[r] # "idle" /\ input[r].action = "handleEventWebhook"

\* The notification lacks its event type or its event time.
LacksEventField(in) == Falsy(in.eventType) \/ Falsy(in.eventTime)

\* The webhook invocations that returned success=true.
AcceptedWebhooks == {r \in ReqIds : IsWebhook(r) /\ Completed(r) /\ result[r].success}

\* C16: the event table is append-only under handleEventWebhook.  A
\* notification lacking eventType or eventTime is rejected with
\* success=false and reaches no insert; every step that changes the table is
\* the insert of a webhook invocation and appends exactly its one row,
\* leaving the rows already there as they are; each accepted notification
\* (success=true) has its row in the table, and the table holds as many rows
\* as notifications were accepted, equal payloads included.
C16_EventsAppendOnly ==
  /\ [][events' # events
         => \E r \in ReqIds :
              /\ IsWebhook(r) /\ pc[r] = "wh_insert" /\ Completed(r)'
              /\ ~LacksEventField(input[r])
              /\ events' = Append(events, EventRow(input[r]))]_vars
  /\ [](\A r \in ReqIds :
          IsWebhook(r) /\ Completed(r)
          => /\ LacksEventField(input[r])
                  => ~result[r].success /\ storeLog[r] = <<>>
             /\ result[r].success
                  => \E k \in 1..Len(events) : events[k] = EventRow(input[r]))
  /\ [](Len(events) = Cardinality(AcceptedWebhooks))

\* C16 witness: the same notification has been delivered and accepted twice
\* and the table holds two equal rows.
C16_Witness ==
  \E r1, r2 \in ReqIds :
    /\ r1 # r2
    /\ {r1, r2} \subseteq AcceptedWebhooks
    /\ input[r1] = input[r2]
    /\ Len(events) = 2
    /\ events[1] = events[2]

(***************************************************************************)
(* Bearer token properties.                                                 *)
(***************************************************************************)
Last(s) == s[Len(s)]

\* The step is the credential select of invocation r.
ReadsCredential(r) ==
  /\ storeLog'[r] # storeLog[r]
  /\ Last(storeLog'[r]).table = "hikvision_tokens"
  /\ Last(storeLog'[r]).op = "select"

\* The step issues a vendor call of invocation r that carries a bearer token
\* (every vendor call but the token request of getToken).
IssuesBearerCall(r) ==
  /\ vendorLog'[r] # vendorLog[r]
  /\ Last(vendorLog'[r]).kind # "token/get"

\* C17 (as claimed): every credential-bearing vendor call carries the access
\* token of the most recently updated credential row its tenant holds when
\* the call is issued, and no such call is issued for a tenant without a
\* credential row.
C17_BearerIsLatestAtCall ==
  [][\A r \in ReqIds :
       IssuesBearerCall(r)
       => LET b == local[r].branch IN
          /\ TokenRows(b) # {}
          /\ Last(vendorLog'[r]).bearer = LatestToken(b).access_token]_vars

\* C17 (amended): the credential select of an operation either finds the
\* tenant's most recently updated row and keeps its access token, or (no
\* row, or a failed select) ends the operation without a vendor call; every
\* credential-bearing vendor call carries the token its operation read that
\* way, and is issued only for a tenant that holds a credential row; an
\* invocation that has returned issues no vendor call.
C17_BearerIsCredentialRead ==
  [][\A r \in ReqIds :
       LET b == local[r].branch IN
       /\ ReadsCredential(r)
            => /\ vendorLog'[r] = vendorLog[r]
               /\ IF TokenRows(b) # {} /\ Last(storeLog'[r]).ok
                  THEN /\ local'[r].tok = LatestToken(b).access_token
                       /\ ~Completed(r)'
                  ELSE Completed(r)'
       /\ IssuesBearerCall(r)
            => /\ TokenRows(b) # {}
               /\ local[r].tok # Absent
               /\ Last(vendorLog'[r]).bearer = local[r].tok
       /\ local[r].tok # Absent => local'[r].tok = local[r].tok
       /\ Completed(r) => vendorLog'[r] = vendorLog[r]]_vars

\* C17 witness: a testDevice request has issued its vendor call with the
\* token it read, and the tenant's credential row holds another token by
\* now.
C17_Witness ==
  \E r \in ReqIds :
    /\ input[r].action = "testDevice"
    /\ vendorLog[r] # <<>>
    /\ Last(vendorLog[r]).bearer = local[r].tok
    /\ TokenRows(local[r].branch) # {}
    /\ LatestToken(local[r].branch).access_token # local[r].tok

(***************************************************************************)
(* Success flag properties.                                                 *)
(***************************************************************************)
\* C18 (as claimed): the top-level success field of a response body is true
\* only if the operation the request invoked made its vendor call and
\* returned success=true: a handler result of success=false is never
\* delivered in an envelope whose top-level success is true.
C18_SuccessOnlyOnVendorSuccess ==
  \A r \in ReqIds :
    Responded(r) /\ response[r].hasBody /\ response[r].body.success
    => /\ result[r].success
       /\ vendorLog[r] # <<>>
       /\ response[r].wrapped => response[r].data.success

(***************************************************************************)
(* Credential frame properties.                                             *)
(***************************************************************************)
\* C19 (as claimed): a getToken request that responds success=false has
\* not created or replaced the credential row of its tenant, which is as it
\* was before the request: the store applied no credential upsert of the
\* request.
C19_FailedGetTokenWritesNothing ==
  \A r \in ReqIds :
    /\ Responded(r) /\ Parsed(r)
    /\ input[r].action = "getToken"
    /\ ~response[r].body.success
    => ~WriteApplied(r, "hikvision_tokens")

\* C20 (as claimed): the site search a getToken request awaits carries as
\* bearer token the access token this same request obtained from the vendor
\* and stored, whatever other getToken requests of the tenant do meanwhile.
C20_NestedSearchUsesOwnToken ==
  \A r \in ReqIds :
    input[r].action = "getToken"
    => \A k \in 1..Len(vendorLog[r]) :
         vendorLog[r][k].kind = "site/search"
         => vendorLog[r][k].bearer = local[r].newTok

\* The operations that mirror a vendor success into a local table.
MirroringActions ==
  {"registerPerson", "assignAccessPrivileges", "createSite", "subscribeToEvents"}

\* The invocation has attempted a write of some table.
WriteAttempted(r) ==
  \E i \in 1..Len(storeLog[r]) : storeLog[r][i].op \in {"upsert", "update", "insert"}

\* The vendor answered the call of the invocation with code '0'.
VendorAccepted(r) == local[r].vendorId # Absent \/ local[r].i >= 1

\* C21: a registerPerson, assignAccessPrivileges, createSite or
\* subscribeToEvents request creates or changes rows of local tables only
\* after its vendor call returned code '0': a step of such a request that
\* changes any table is its mirror write after an accepted vendor call, and
\* a request whose operation returned success=false (a vendor code other
\* than '0', a missing credential, device not found, API settings not found)
\* has attempted no write at all.
C21_NoWriteOnFailure ==
  /\ [][\A r \in ReqIds :
         Acts(r) /\ input[r].action \in MirroringActions /\ store' # store
         => /\ VendorAccepted(r)
            /\ pc[r] \in {"rp_upsert", "ap_upsert", "cs_update", "se_upsert"}]_vars
  /\ [](\A r \in ReqIds :
          /\ input[r].action \in MirroringActions
          /\ Completed(r)
          /\ ~result[r].success
          => ~WriteAttempted(r) /\ ~VendorAccepted(r))

\* C21 witness: a createSite request whose vendor call returned an error
\* code and an assignAccessPrivileges request that found no credential have
\* both completed, and no table holds a row either could have written.
C21_Witness ==
  \E r, q \in ReqIds :
    /\ input[r].action = "createSite" /\ Completed(r)
    /\ result[r].errorCode # Absent
    /\ input[q].action = "assignAccessPrivileges" /\ Completed(q)
    /\ result[q] = NoTokenResult
    /\ privileges = {}
    /\ \A b \in Tenants : apiSettings[b].site = NoSite

====
